---- MODULE Spec2Model ----
(***************************************************************************)
(* Snake game (src/main.py) and its leaderboard store (src/highscores.py). *)
(*                                                                         *)
(* Units.  The move rate is kept in quarter-Hz (8.5 Hz = 34, 18.0 Hz = 72, *)
(* the per-food speed-up of 0.25 Hz = 1), which is exact because every     *)
(* rate the program produces is a multiple of 0.25.  The accumulator is    *)
(* kept in units of 1/ACC_ONE tick.  frame_dt is a real number; a frame is *)
(* enumerated by the progress dt * move_hz it adds to the accumulator.     *)
(* The grid, the name-buffer capacity and the rate ceiling are scaled down  *)
(* (see the bounds).                                                       *)
(*                                                                         *)
(* Spec is the game: the event handlers and the update of main()'s loop.   *)
(* A quit event only ends the loop after the frame's update and changes no *)
(* game state, so it is left out.  The game's only call into the store is  *)
(* save_highscore, whose result it discards; Spec records the call in      *)
(* save_calls.  SpecStore is the store: save_highscore and load_highscores *)
(* applied to the backing file.  SpecSanitize is one _sanitize_name call   *)
(* on any string, SpecSpawn one rand_empty_cell call, draw by draw.        *)
(* SpecConfirm is the confirm key of GAME_OVER with the store behind it.   *)
(***************************************************************************)
EXTENDS Integers, Sequences, FiniteSets, TLC

VARIABLES
    scene,        \* Game.scene
    body,         \* Game.snake.body, head first
    dir,          \* Game.snake.dir
    pending_dir,  \* Game.snake.pending_dir (NoDir models None)
    food,         \* Game.food
    score,        \* Game.score
    paused,       \* Game.paused
    move_hz,      \* Game.move_hz, in quarter-Hz
    move_accum,   \* Game.move_accum, in 1/ACC_ONE tick
    last_body,    \* Game.last_body
    name,         \* Game.name, a sequence of characters
    saved,        \* Game.saved
    pc,           \* position in main()'s loop body: "events" or "update"
    eats,         \* history: ticks since the last reset whose new head was the
                  \* food cell
    save_calls,   \* history: arguments of the save_highscore calls made since
                  \* the last reset or game over
    reset_from,   \* history: the scene in which the last step called reset(),
                  \* "none" when the last step called no reset()
    last_key,     \* history: <<scene, key>> when the last step handled the
                  \* confirm key in a menu or the restart key, NoKey otherwise
    st_file,      \* content of highscores.json
    st_op,        \* the store call made, with its arguments
    st_ret,       \* what the store call returned
    spawn         \* one rand_empty_cell call: its argument, its attempts
                  \* counter and what it returned

snakeVars == <<body, dir, pending_dir>>
gameVars == <<scene, body, dir, pending_dir, food, score, paused, move_hz,
              move_accum, last_body, name, saved, pc, eats, save_calls,
              reset_from, last_key>>
storeVars == <<st_file, st_op, st_ret>>
vars == <<gameVars, storeVars, spawn>>

-----------------------------------------------------------------------------
\* Bounds of the model

\* grid width (the program uses 32)
GRID_W == 3
\* grid height (the program uses 24)
GRID_H == 2
\* capacity of the name-entry buffer (the program uses 16)
NAME_MAX == 2
\* largest progress one frame adds to the accumulator, in 1/ACC_ONE tick
MaxProgress == 3
\* store: most items in the file, largest score, largest keep_max
StoreN == 2
\* sanitization: most characters after the run of letters of an input string
MaxTail == 3
\* failed random draws before rand_empty_cell scans (the program uses 10,000)
ATTEMPTS_MAX == 2

-----------------------------------------------------------------------------
\* Program constants

MOVE_HZ_START == 34
MOVE_HZ_MAX == 36
HZ_STEP == 1
SCORE_PER_FOOD == 10
ACC_ONE == 2
SANITIZE_MAX == 16
KEEP_MAX_DEFAULT == 50

START == "start"
PLAY == "play"
GAME_OVER == "game_over"
HIGHSCORES == "highscores"

NoDir == <<0, 0>>
RIGHT == <<1, 0>>
LEFT == <<-1, 0>>
UP == <<0, -1>>
DOWN == <<0, 1>>
Dirs == {RIGHT, LEFT, UP, DOWN}

Cells == (0 .. GRID_W - 1) \X (0 .. GRID_H - 1)

\* Characters: "p" and the letters of the placeholder stand for printable
\* non-blank characters, " " is the space, TAB, CR and LF are the blank control
\* characters, BS and NUL the other control characters.
NonPrintable == {"TAB", "CR", "LF", "BS", "NUL"}
Blank == {" ", "TAB", "CR", "LF"}

\* str.isprintable
isprintable(ch) == ch \notin NonPrintable

\* str.isspace
isspace(ch) == ch \in Blank

-----------------------------------------------------------------------------
\* Small utilities

\* clamp without its upper limit
clamp_no_ceiling(x, lo, hi) == IF x < lo THEN lo ELSE x

clamp(x, lo, hi) == IF x < lo THEN lo ELSE IF x > hi THEN hi ELSE x

Neg(d) == <<-d[1], -d[2]>>

Add(c, d) == <<c[1] + d[1], c[2] + d[2]>>

Range(s) == {s[i] : i \in 1 .. Len(s)}

\* row-major scan of the fallback in rand_empty_cell
RowMajor(c) == c[2] * GRID_W + c[1]

\* rand_empty_cell that does not test the cell it drew
rand_empty_cell_untested(occupied) == Cells

\* The cells rand_empty_cell can return for an occupied set: any free cell from
\* a random draw, or the first free cell in row-major order from the fallback
\* scan.  With no free cell it never returns.
rand_empty_cell(occupied) ==
    LET free == {c \in Cells : c \notin occupied}
        scan == {c \in free : \A e \in free : RowMajor(c) <= RowMajor(e)}
    IN  free \cup scan

-----------------------------------------------------------------------------
\* Snake

occupied(b) == Range(b)

head(b) == b[1]

\* set_dir without the reversal guard
set_dir_any(s, new_dir) == [s EXCEPT !.pending_dir = new_dir]

\* set_dir that queues behind a direction already pending instead of
\* overwriting it
set_dir_keeps_first(s, new_dir) ==
    IF Neg(new_dir) = s.dir \/ s.pending_dir # NoDir
    THEN s
    ELSE [s EXCEPT !.pending_dir = new_dir]

set_dir(s, new_dir) ==
    IF Neg(new_dir) = s.dir
    THEN s
    ELSE [s EXCEPT !.pending_dir = new_dir]

\* step that drops the tail even when growing
step_always_pop(s, grow) ==
    LET d == IF s.pending_dir # NoDir THEN s.pending_dir ELSE s.dir
        n == Add(head(s.body), d)
        b == <<n>> \o s.body
    IN  [body |-> SubSeq(b, 1, Len(b) - 1),
         dir |-> d,
         pending_dir |-> NoDir]

step(s, grow) ==
    LET d == IF s.pending_dir # NoDir THEN s.pending_dir ELSE s.dir
        n == Add(head(s.body), d)
        b == <<n>> \o s.body
    IN  [body |-> IF grow THEN b ELSE SubSeq(b, 1, Len(b) - 1),
         dir |-> d,
         pending_dir |-> NoDir]

snake == [body |-> body, dir |-> dir, pending_dir |-> pending_dir]

SetSnake(s) ==
    /\ body' = s.body
    /\ dir' = s.dir
    /\ pending_dir' = s.pending_dir

-----------------------------------------------------------------------------
\* Game

\* the inputs last_key records: the confirm key in the menus and the restart
\* key in every scene
Recorded(s, k) == k = "r" \/ (k = "RETURN" /\ s \in {START, HIGHSCORES})

NoKey == <<"none", "none">>

StartBody == <<<<GRID_W \div 2, GRID_H \div 2>>, <<(GRID_W \div 2) - 1, GRID_H \div 2>>>>

\* what spawn_food() can place for the start body
StartFood == rand_empty_cell(occupied(StartBody))

\* reset that leaves the accumulator alone
reset_keeps_accum ==
    /\ SetSnake([body |-> StartBody, dir |-> RIGHT, pending_dir |-> NoDir])
    /\ score' = 0
    /\ paused' = FALSE
    /\ move_hz' = MOVE_HZ_START
    /\ move_accum' = move_accum
    /\ last_body' = StartBody
    /\ name' = <<>>
    /\ saved' = FALSE
    /\ food' \in StartFood
    /\ eats' = 0
    /\ save_calls' = <<>>
    /\ reset_from' = scene

reset ==
    /\ SetSnake([body |-> StartBody, dir |-> RIGHT, pending_dir |-> NoDir])
    /\ score' = 0
    /\ paused' = FALSE
    /\ move_hz' = MOVE_HZ_START
    /\ move_accum' = 0
    /\ last_body' = StartBody
    /\ name' = <<>>
    /\ saved' = FALSE
    /\ food' \in StartFood
    /\ eats' = 0
    /\ save_calls' = <<>>
    /\ reset_from' = scene

go_start ==
    /\ scene' = START
    /\ paused' = FALSE

go_play ==
    /\ scene' = PLAY
    /\ paused' = FALSE

go_game_over ==
    /\ scene' = GAME_OVER
    /\ paused' = FALSE
    /\ name' = <<>>
    /\ saved' = FALSE
    /\ save_calls' = <<>>

go_highscores ==
    /\ scene' = HIGHSCORES
    /\ paused' = FALSE

\* no rand_empty_cell call under way
SpawnIdle == [occupied |-> {}, attempts |-> 0, ret |-> <<>>]

StoreIdle ==
    /\ st_file = [kind |-> "missing", items |-> <<>>]
    /\ st_op = [op |-> "none", name |-> <<>>, score |-> 0, keep_max |-> 0, write |-> "ok"]
    /\ st_ret = [raised |-> FALSE, entries |-> <<>>]

GameInit ==
    /\ scene = START
    /\ body = StartBody
    /\ dir = RIGHT
    /\ pending_dir = NoDir
    /\ food \in rand_empty_cell(occupied(StartBody))
    /\ score = 0
    /\ paused = FALSE
    /\ move_hz = MOVE_HZ_START
    /\ move_accum = 0
    /\ last_body = StartBody
    /\ name = <<>>
    /\ saved = FALSE
    /\ pc = "events"
    /\ eats = 0
    /\ save_calls = <<>>
    /\ reset_from = "none"
    /\ last_key = NoKey

Init ==
    /\ GameInit
    /\ StoreIdle
    /\ spawn = SpawnIdle

-----------------------------------------------------------------------------
\* Leaderboard store (src/highscores.py)
\*
\* The file is [kind, items]: kind "missing" (no file), "corrupt" (unreadable
\* or not JSON), "notdict" (top level not an object), "noscores" (no "scores"
\* key), "notlist" ("scores" not a list) or "list".  An item of the list is
\* [dict, name, score]; name is [kind, chars] with kind "absent" (no key),
\* "str", "falsy" (null, 0, false, an empty container) or "truthy" (any other
\* non-string); score is [kind, val] with kind "absent", "int" (a value int()
\* accepts, val its result) or "bad" (a value int() rejects).

PLAYER == <<"P", "L", "A", "Y", "E", "R">>

Max(a, b) == IF a > b THEN a ELSE b

Min(a, b) == IF a < b THEN a ELSE b

RECURSIVE lstrip(_)
lstrip(s) == IF s # <<>> /\ isspace(Head(s)) THEN lstrip(Tail(s)) ELSE s

RECURSIVE rstrip(_)
rstrip(s) ==
    IF s # <<>> /\ isspace(s[Len(s)]) THEN rstrip(SubSeq(s, 1, Len(s) - 1)) ELSE s

\* str.strip
strip(s) == rstrip(lstrip(s))

\* "".join(ch for ch in name if ch.isprintable())
printable_only(s) == SelectSeq(s, isprintable)

\* name.replace("\n", " ").replace("\r", " ").replace("\t", " ")
replace_breaks(s) ==
    [i \in 1 .. Len(s) |-> IF s[i] \in {"LF", "CR", "TAB"} THEN " " ELSE s[i]]

\* _sanitize_name without the strip after the cut
_sanitize_name_no_final_strip(n) ==
    LET a == strip(n)
        b == replace_breaks(printable_only(a))
        c == SubSeq(b, 1, Min(Len(b), SANITIZE_MAX))
    IN  IF a = <<>> THEN PLAYER
        ELSE IF c = <<>> THEN PLAYER
        ELSE c

\* _sanitize_name without the isprintable filter
_sanitize_name_unfiltered(n) ==
    LET a == strip(n)
        c == strip(SubSeq(a, 1, Min(Len(a), SANITIZE_MAX)))
    IN  IF a = <<>> THEN PLAYER
        ELSE IF c = <<>> THEN PLAYER
        ELSE c

_sanitize_name(n) ==
    LET a == strip(n)
        b == replace_breaks(printable_only(a))
        c == strip(SubSeq(b, 1, Min(Len(b), SANITIZE_MAX)))
    IN  IF a = <<>> THEN PLAYER
        ELSE IF c = <<>> THEN PLAYER
        ELSE c

_safe_int(x, default) == IF x.kind = "int" THEN x.val ELSE default

\* list.sort(key=lambda e: e.score, reverse=True): stable, descending
RECURSIVE insert_desc(_, _)
insert_desc(sorted, e) ==
    IF sorted = <<>> THEN <<e>>
    ELSE IF Head(sorted).score >= e.score
         THEN <<Head(sorted)>> \o insert_desc(Tail(sorted), e)
         ELSE <<e>> \o sorted

RECURSIVE sort_desc(_)
sort_desc(es) ==
    IF es = <<>> THEN <<>>
    ELSE insert_desc(sort_desc(SubSeq(es, 1, Len(es) - 1)), es[Len(es)])

\* the loop of load_highscores over the items: [raised, entries]
RECURSIVE load_items(_)
load_items(items) ==
    IF items = <<>> THEN [raised |-> FALSE, entries |-> <<>>]
    ELSE LET it == Head(items)
             rest == load_items(Tail(items))
         IN  IF ~it.dict THEN rest
             ELSE IF it.name.kind = "truthy"
                  THEN [raised |-> TRUE, entries |-> <<>>]
             ELSE IF rest.raised THEN rest
             ELSE LET nm == _sanitize_name(
                                IF it.name.kind = "absent" THEN PLAYER
                                ELSE IF it.name.kind = "falsy" THEN <<>>
                                ELSE it.name.chars)
                      sc == Max(0, _safe_int(
                                IF it.score.kind = "absent"
                                THEN [kind |-> "int", val |-> 0]
                                ELSE it.score, 0))
                  IN  [raised |-> FALSE,
                       entries |-> <<[name |-> nm, score |-> sc]>> \o rest.entries]

load_highscores(f) ==
    IF f.kind \in {"missing", "corrupt"}
    THEN [raised |-> FALSE, entries |-> <<>>]
    ELSE LET r == load_items(IF f.kind = "list" THEN f.items ELSE <<>>)
         IN  IF r.raised THEN r
             ELSE [raised |-> FALSE, entries |-> sort_desc(r.entries)]

\* json.dump of the payload {"scores": [{"name": ..., "score": ...}, ...]}
dump(entries) ==
    [kind |-> "list",
     items |-> [i \in 1 .. Len(entries) |->
                  [dict |-> TRUE,
                   name |-> [kind |-> "str", chars |-> entries[i].name],
                   score |-> [kind |-> "int", val |-> entries[i].score]]]]

\* save_highscore that appends without sorting again
save_highscore_unsorted(f, n, sc, keep_max, write) ==
    LET l == load_highscores(f)
        all == Append(l.entries, [name |-> _sanitize_name(n), score |-> Max(0, sc)])
        kept == SubSeq(all, 1, Min(Len(all), Max(1, keep_max)))
    IN  IF l.raised THEN [raised |-> TRUE, entries |-> <<>>, file |-> f]
        ELSE [raised |-> FALSE,
              entries |-> kept,
              file |-> CASE write = "ok" -> dump(kept)
                         [] write = "open_failed" -> f
                         [] write = "dump_failed" -> [kind |-> "corrupt", items |-> <<>>]]

\* save_highscore without the try around the persist step
save_highscore_no_try(f, n, sc, keep_max, write) ==
    LET l == load_highscores(f)
        all == sort_desc(Append(l.entries,
                                [name |-> _sanitize_name(n), score |-> Max(0, sc)]))
        kept == SubSeq(all, 1, Min(Len(all), Max(1, keep_max)))
    IN  IF l.raised THEN [raised |-> TRUE, entries |-> <<>>, file |-> f]
        ELSE [raised |-> write # "ok",
              entries |-> IF write = "ok" THEN kept ELSE <<>>,
              file |-> CASE write = "ok" -> dump(kept)
                         [] write = "open_failed" -> f
                         [] write = "dump_failed" -> [kind |-> "corrupt", items |-> <<>>]]

\* save_highscore: [raised, entries, file].  write is how the persist step
\* ends: "ok", "open_failed" (the file is left as it was) or "dump_failed" (the
\* file was opened for writing, hence truncated, and the dump did not finish).
save_highscore(f, n, sc, keep_max, write) ==
    LET l == load_highscores(f)
        all == sort_desc(Append(l.entries,
                                [name |-> _sanitize_name(n), score |-> Max(0, sc)]))
        kept == SubSeq(all, 1, Min(Len(all), Max(1, keep_max)))
    IN  IF l.raised THEN [raised |-> TRUE, entries |-> <<>>, file |-> f]
        ELSE [raised |-> FALSE,
              entries |-> kept,
              file |-> CASE write = "ok" -> dump(kept)
                         [] write = "open_failed" -> f
                         [] write = "dump_failed" -> [kind |-> "corrupt", items |-> <<>>]]

-----------------------------------------------------------------------------
\* Input events of main()'s event loop

\* The keys the handlers tell apart.  K_SPACE is left out: the menus treat it
\* as K_RETURN and GAME_OVER treats it as one more printable character; the
\* letter keys w, a, s, d act as the arrows in PLAY.
Keys == {"RETURN", "h", "r", "p", "UP", "DOWN", "LEFT", "RIGHT", "BACKSPACE",
         "TAB"}

\* ev.unicode of a key press ("" when the key produces no text)
Unicode(k) ==
    CASE k = "RETURN" -> "CR"
      [] k = "TAB" -> "TAB"
      [] k = "BACKSPACE" -> "BS"
      [] k \in {"h", "r", "p"} -> k
      [] OTHER -> ""


KeyDir(k) ==
    CASE k = "UP" -> UP
      [] k = "DOWN" -> DOWN
      [] k = "LEFT" -> LEFT
      [] k = "RIGHT" -> RIGHT

\* the menu handler whose K_r goes to START without a reset
MenuKey_r_no_reset(k) ==
    IF k = "RETURN" THEN
        /\ reset
        /\ go_play
    ELSE IF k = "h" THEN
        /\ go_highscores
        /\ reset_from' = "none"
        /\ UNCHANGED <<snakeVars, food, score, move_hz, move_accum, last_body,
                       name, saved, eats, save_calls>>
    ELSE IF k = "r" THEN
        /\ go_start
        /\ reset_from' = "none"
        /\ UNCHANGED <<snakeVars, food, score, move_hz, move_accum, last_body,
                       name, saved, eats, save_calls>>
    ELSE
        /\ reset_from' = "none"
        /\ UNCHANGED <<scene, snakeVars, food, score, paused, move_hz, move_accum,
                    last_body, name, saved, eats, save_calls>>

\* scene in (START, HIGHSCORES)
MenuKey(k) ==
    IF k = "RETURN" THEN
        /\ reset
        /\ go_play
    ELSE IF k = "h" THEN
        /\ go_highscores
        /\ reset_from' = "none"
        /\ UNCHANGED <<snakeVars, food, score, move_hz, move_accum, last_body,
                       name, saved, eats, save_calls>>
    ELSE IF k = "r" THEN
        /\ reset
        /\ go_start
    ELSE
        /\ reset_from' = "none"
        /\ UNCHANGED <<scene, snakeVars, food, score, paused, move_hz, move_accum,
                    last_body, name, saved, eats, save_calls>>

\* scene == PLAY
PlayKey(k) ==
    IF k \in {"UP", "DOWN", "LEFT", "RIGHT"} THEN
        /\ SetSnake(set_dir(snake, KeyDir(k)))
        /\ reset_from' = "none"
        /\ UNCHANGED <<scene, food, score, paused, move_hz, move_accum,
                       last_body, name, saved, eats, save_calls>>
    ELSE IF k = "p" THEN
        /\ paused' = ~paused
        /\ reset_from' = "none"
        /\ UNCHANGED <<scene, snakeVars, food, score, move_hz, move_accum,
                       last_body, name, saved, eats, save_calls>>
    ELSE IF k = "r" THEN
        /\ reset
        /\ go_play
    ELSE IF k = "h" THEN
        /\ go_highscores
        /\ reset_from' = "none"
        /\ UNCHANGED <<snakeVars, food, score, move_hz, move_accum, last_body,
                       name, saved, eats, save_calls>>
    ELSE
        /\ reset_from' = "none"
        /\ UNCHANGED <<scene, snakeVars, food, score, paused, move_hz, move_accum,
                    last_body, name, saved, eats, save_calls>>

\* the confirm handler without its saved guard
confirm_save_always ==
    /\ save_calls' = Append(save_calls,
          [name |-> name, score |-> score, keep_max |-> KEEP_MAX_DEFAULT])
    /\ saved' = TRUE

\* K_RETURN in GAME_OVER: save once
confirm_save ==
    IF ~saved
    THEN /\ save_calls' = Append(save_calls,
               [name |-> name, score |-> score, keep_max |-> KEEP_MAX_DEFAULT])
         /\ saved' = TRUE
    ELSE UNCHANGED <<save_calls, saved>>

\* scene == GAME_OVER
GameOverKey(k) ==
    IF k = "r" THEN
        /\ reset
        /\ go_play
    ELSE IF k = "h" THEN
        /\ go_highscores
        /\ reset_from' = "none"
        /\ UNCHANGED <<snakeVars, food, score, move_hz, move_accum, last_body,
                       name, saved, eats, save_calls>>
    ELSE IF k = "RETURN" THEN
        /\ confirm_save
        /\ reset_from' = "none"
        /\ UNCHANGED <<scene, snakeVars, food, score, paused, move_hz,
                       move_accum, last_body, name, eats>>
    ELSE IF k = "BACKSPACE" THEN
        /\ name' = IF ~saved /\ name # <<>>
                   THEN SubSeq(name, 1, Len(name) - 1)
                   ELSE name
        /\ reset_from' = "none"
        /\ UNCHANGED <<scene, snakeVars, food, score, paused, move_hz,
                       move_accum, last_body, saved, eats, save_calls>>
    ELSE
        /\ name' = IF /\ ~saved
                      /\ Unicode(k) # ""
                      /\ isprintable(Unicode(k))
                      /\ Unicode(k) \notin {"CR", "LF", "TAB"}
                      /\ Len(name) < NAME_MAX
                   THEN Append(name, Unicode(k))
                   ELSE name
        /\ reset_from' = "none"
        /\ UNCHANGED <<scene, snakeVars, food, score, paused, move_hz,
                       move_accum, last_body, saved, eats, save_calls>>

\* what the handler of one pygame.KEYDOWN event does to the game
HandleKey(k) ==
    /\ pc = "events"
    /\ pc' = pc
    /\ last_key' = IF Recorded(scene, k) THEN <<scene, k>> ELSE NoKey
    /\ CASE scene \in {START, HIGHSCORES} -> MenuKey(k)
         [] scene = PLAY -> PlayKey(k)
         [] scene = GAME_OVER -> GameOverKey(k)

\* one pygame.KEYDOWN event
KeyDown(k) ==
    /\ HandleKey(k)
    /\ UNCHANGED <<storeVars, spawn>>

-----------------------------------------------------------------------------
\* Update (gameplay)

\* the update that accumulates progress even while paused
Frame_ignores_pause(p) ==
    /\ pc = "events"
    /\ IF scene = PLAY
       THEN /\ move_accum' = move_accum + p
            /\ pc' = IF move_accum' >= ACC_ONE THEN "update" ELSE "events"
       ELSE /\ move_accum' = move_accum
            /\ pc' = "events"
    /\ UNCHANGED <<scene, snakeVars, food, score, paused, move_hz, last_body,
                   name, saved, eats, save_calls, storeVars, spawn>>
    /\ reset_from' = "none"
    /\ last_key' = NoKey

\* the frame's update up to the first test of the while loop; p is
\* dt * move_hz
Frame(p) ==
    /\ pc = "events"
    /\ IF scene = PLAY /\ ~paused
       THEN /\ move_accum' = move_accum + p
            /\ pc' = IF move_accum' >= ACC_ONE THEN "update" ELSE "events"
       ELSE /\ move_accum' = move_accum
            /\ pc' = "events"
    /\ UNCHANGED <<scene, snakeVars, food, score, paused, move_hz, last_body,
                   name, saved, eats, save_calls, storeVars, spawn>>
    /\ reset_from' = "none"
    /\ last_key' = NoKey

\* the wall test with its upper limits off by one
OutOfGrid_loose(c) == c[1] < 0 \/ c[1] > GRID_W \/ c[2] < 0 \/ c[2] > GRID_H

OutOfGrid(c) == c[1] < 0 \/ c[1] >= GRID_W \/ c[2] < 0 \/ c[2] >= GRID_H

eff_dir == IF pending_dir # NoDir THEN pending_dir ELSE dir

\* the eating test on the current direction instead of the effective one
will_eat_current_dir == Add(head(body), dir) = food

will_eat == Add(head(body), eff_dir) = food

\* the iteration whose collision branches do not leave the while loop
Tick_no_break ==
    /\ pc = "update"
    /\ LET s == step(snake, will_eat)
           h == head(s.body)
           acc == move_accum - ACC_ONE
           hit == OutOfGrid(h) \/ h \in Range(Tail(s.body))
       IN  /\ move_accum' = acc
           /\ last_body' = body
           /\ SetSnake(s)
           /\ eats' = IF will_eat THEN eats + 1 ELSE eats
           /\ reset_from' = "none"
           /\ last_key' = NoKey
           /\ pc' = IF acc >= ACC_ONE THEN "update" ELSE "events"
           /\ IF hit THEN
                  /\ go_game_over
                  /\ UNCHANGED <<food, score, move_hz>>
              ELSE
                  /\ IF will_eat THEN
                         /\ score' = score + SCORE_PER_FOOD
                         /\ move_hz' = clamp(move_hz + HZ_STEP, MOVE_HZ_START, MOVE_HZ_MAX)
                         /\ food' \in rand_empty_cell(occupied(s.body))
                     ELSE
                         UNCHANGED <<food, score, move_hz>>
                  /\ UNCHANGED <<scene, paused, name, saved, save_calls>>
    /\ UNCHANGED <<storeVars, spawn>>

\* the iteration that takes the snapshot after the step
Tick_late_snapshot ==
    /\ pc = "update"
    /\ LET s == step(snake, will_eat)
           h == head(s.body)
           acc == move_accum - ACC_ONE
           hit == OutOfGrid(h) \/ h \in Range(Tail(s.body))
       IN  /\ move_accum' = acc
           /\ last_body' = s.body
           /\ SetSnake(s)
           /\ eats' = IF will_eat THEN eats + 1 ELSE eats
           /\ reset_from' = "none"
           /\ last_key' = NoKey
           /\ IF hit THEN
                  /\ go_game_over
                  /\ pc' = "events"
                  /\ UNCHANGED <<food, score, move_hz>>
              ELSE
                  /\ pc' = IF acc >= ACC_ONE THEN "update" ELSE "events"
                  /\ IF will_eat THEN
                         /\ score' = score + SCORE_PER_FOOD
                         /\ move_hz' = clamp(move_hz + HZ_STEP, MOVE_HZ_START, MOVE_HZ_MAX)
                         /\ food' \in rand_empty_cell(occupied(s.body))
                     ELSE
                         UNCHANGED <<food, score, move_hz>>
                  /\ UNCHANGED <<scene, paused, name, saved, save_calls>>
    /\ UNCHANGED <<storeVars, spawn>>

\* the iteration without the self collision test
Tick_no_self_check ==
    /\ pc = "update"
    /\ LET s == step(snake, will_eat)
           h == head(s.body)
           acc == move_accum - ACC_ONE
           hit == OutOfGrid(h)
       IN  /\ move_accum' = acc
           /\ last_body' = body
           /\ SetSnake(s)
           /\ eats' = IF will_eat THEN eats + 1 ELSE eats
           /\ reset_from' = "none"
           /\ last_key' = NoKey
           /\ IF hit THEN
                  /\ go_game_over
                  /\ pc' = "events"
                  /\ UNCHANGED <<food, score, move_hz>>
              ELSE
                  /\ pc' = IF acc >= ACC_ONE THEN "update" ELSE "events"
                  /\ IF will_eat THEN
                         /\ score' = score + SCORE_PER_FOOD
                         /\ move_hz' = clamp(move_hz + HZ_STEP, MOVE_HZ_START, MOVE_HZ_MAX)
                         /\ food' \in rand_empty_cell(occupied(s.body))
                     ELSE
                         UNCHANGED <<food, score, move_hz>>
                  /\ UNCHANGED <<scene, paused, name, saved, save_calls>>
    /\ UNCHANGED <<storeVars, spawn>>

\* the iteration that tests the new head against the body as it was before
\* the step, the cell the tail leaves included
Tick_hits_old_tail ==
    /\ pc = "update"
    /\ LET s == step(snake, will_eat)
           h == head(s.body)
           acc == move_accum - ACC_ONE
           hit == OutOfGrid(h) \/ h \in Range(body)
       IN  /\ move_accum' = acc
           /\ last_body' = body
           /\ SetSnake(s)
           /\ eats' = IF will_eat THEN eats + 1 ELSE eats
           /\ reset_from' = "none"
           /\ last_key' = NoKey
           /\ IF hit THEN
                  /\ go_game_over
                  /\ pc' = "events"
                  /\ UNCHANGED <<food, score, move_hz>>
              ELSE
                  /\ pc' = IF acc >= ACC_ONE THEN "update" ELSE "events"
                  /\ IF will_eat THEN
                         /\ score' = score + SCORE_PER_FOOD
                         /\ move_hz' = clamp(move_hz + HZ_STEP, MOVE_HZ_START, MOVE_HZ_MAX)
                         /\ food' \in rand_empty_cell(occupied(s.body))
                     ELSE
                         UNCHANGED <<food, score, move_hz>>
                  /\ UNCHANGED <<scene, paused, name, saved, save_calls>>
    /\ UNCHANGED <<storeVars, spawn>>

\* one iteration of `while g.move_accum >= 1.0`.  When the snake has eaten and
\* covers the whole grid, spawn_food never returns and the iteration does not
\* complete.
Tick ==
    /\ pc = "update"
    /\ LET s == step(snake, will_eat)
           h == head(s.body)
           acc == move_accum - ACC_ONE
           hit == OutOfGrid(h) \/ h \in Range(Tail(s.body))
       IN  /\ move_accum' = acc
           /\ last_body' = body
           /\ SetSnake(s)
           /\ eats' = IF will_eat THEN eats + 1 ELSE eats
           /\ reset_from' = "none"
           /\ last_key' = NoKey
           /\ IF hit THEN
                  /\ go_game_over
                  /\ pc' = "events"
                  /\ UNCHANGED <<food, score, move_hz>>
              ELSE
                  /\ pc' = IF acc >= ACC_ONE THEN "update" ELSE "events"
                  /\ IF will_eat THEN
                         /\ score' = score + SCORE_PER_FOOD
                         /\ move_hz' = clamp(move_hz + HZ_STEP, MOVE_HZ_START, MOVE_HZ_MAX)
                         /\ food' \in rand_empty_cell(occupied(s.body))
                     ELSE
                         UNCHANGED <<food, score, move_hz>>
                  /\ UNCHANGED <<scene, paused, name, saved, save_calls>>
    /\ UNCHANGED <<storeVars, spawn>>

\* The progress dt * move_hz a frame can add.  The update reads it in PLAY
\* while unpaused only; elsewhere one value stands for every dt.
Progress == IF scene = PLAY /\ ~paused THEN 1 .. MaxProgress ELSE {1}

\* what the PLAY branch of the render hands to interpolate_body: the blend
\* fraction, in 1/ACC_ONE, and the snapshot with its fallback
alpha == clamp(move_accum, 0, ACC_ONE)

prev == IF last_body = <<>> THEN body ELSE last_body

Next ==
    \/ \E k \in Keys : KeyDown(k)
    \/ \E p \in Progress : Frame(p)
    \/ Tick

Spec == Init /\ [][Next]_vars

-----------------------------------------------------------------------------
\* The store on its own: one save_highscore or load_highscores call on any
\* file, and a load_highscores call after a save_highscore call

RECURSIVE Pad(_)
Pad(k) == IF k <= 0 THEN <<>> ELSE <<"p">> \o Pad(k - 1)

SeqsUpTo(S, n) == UNION {[1 .. m -> S] : m \in 0 .. n}

StrName(cs) == [kind |-> "str", chars |-> cs]

IntScore(v) == [kind |-> "int", val |-> v]

FileNames ==
    {[kind |-> "absent", chars |-> <<>>],
     [kind |-> "falsy", chars |-> <<>>],
     [kind |-> "truthy", chars |-> <<>>],
     StrName(<<"p">>),
     StrName(<<" ", "NUL", "p", "TAB">>)}

FileScores ==
    {[kind |-> "absent", val |-> 0], [kind |-> "bad", val |-> 0]}
        \cup {IntScore(v) : v \in -1 .. StoreN}

RawItems ==
    {[dict |-> FALSE, name |-> StrName(<<>>), score |-> IntScore(0)]}
        \cup {[dict |-> TRUE, name |-> n, score |-> IntScore(0)] : n \in FileNames}
        \cup {[dict |-> TRUE, name |-> StrName(<<"p">>), score |-> x] : x \in FileScores}

Files ==
    {[kind |-> k, items |-> <<>>] :
        k \in {"missing", "corrupt", "notdict", "noscores", "notlist"}}
        \cup {[kind |-> "list", items |-> its] : its \in SeqsUpTo(RawItems, StoreN)}

SaveNames ==
    {<<>>,
     <<"p">>,
     <<" ", "p", "TAB">>,
     <<"NUL">>,
     <<"p", " ", " ", "p">>,
     <<"TAB", "p", "NUL", "p">>,
     Pad(SANITIZE_MAX - 1) \o <<" ", "p">>,
     Pad(SANITIZE_MAX + 1)}

SaveScores == -1 .. StoreN

KeepMaxes == 1 .. StoreN

Writes == {"ok", "open_failed", "dump_failed"}

InitStore ==
    /\ GameInit
    /\ food = <<0, 0>>
    /\ st_file \in Files
    /\ st_op = [op |-> "none", name |-> <<>>, score |-> 0, keep_max |-> 0, write |-> "ok"]
    /\ st_ret = [raised |-> FALSE, entries |-> <<>>]
    /\ spawn = SpawnIdle

Save(n, sc, keep_max, write) ==
    /\ st_op.op = "none"
    /\ LET r == save_highscore(st_file, n, sc, keep_max, write)
       IN  /\ st_file' = r.file
           /\ st_ret' = [raised |-> r.raised, entries |-> r.entries]
    /\ st_op' = [op |-> "save", name |-> n, score |-> sc, keep_max |-> keep_max,
                 write |-> write]
    /\ UNCHANGED <<gameVars, spawn>>

Load ==
    /\ st_op.op \in {"none", "save"}
    /\ st_ret' = load_highscores(st_file)
    /\ st_op' = [st_op EXCEPT !.op = IF st_op.op = "save" THEN "save_load" ELSE "load"]
    /\ UNCHANGED <<st_file, gameVars, spawn>>

NextStore ==
    \/ \E n \in SaveNames, sc \in SaveScores, k \in KeepMaxes, w \in Writes :
          Save(n, sc, k, w)
    \/ Load

SpecStore == InitStore /\ [][NextStore]_vars

-----------------------------------------------------------------------------
\* The confirm key with the store behind it: K_RETURN in GAME_OVER, with the
\* save_highscore call it makes carried out on any file, next to
\* save_highscore calls made directly.  A run makes one call on the file it
\* starts with, by the key or directly; the key can be pressed again.

\* GAME_OVER as the game reaches it when the snake runs from the start
\* straight into the right wall with the food out of its way, and some
\* letters typed, over a file with room for one more entry within StoreN
InitConfirm ==
    /\ scene = GAME_OVER
    /\ body = <<<<GRID_W, GRID_H \div 2>>, <<GRID_W - 1, GRID_H \div 2>>>>
    /\ last_body = <<<<GRID_W - 1, GRID_H \div 2>>, <<GRID_W - 2, GRID_H \div 2>>>>
    /\ dir = RIGHT
    /\ pending_dir = NoDir
    /\ food = <<0, 0>>
    /\ score = 0
    /\ paused = FALSE
    /\ move_hz = MOVE_HZ_START
    /\ move_accum = 0
    /\ name \in SeqsUpTo({"p"}, NAME_MAX)
    /\ saved = FALSE
    /\ pc = "events"
    /\ eats = 0
    /\ save_calls = <<>>
    /\ reset_from = "none"
    /\ last_key = NoKey
    /\ st_file \in {f \in Files : Len(f.items) < StoreN}
    /\ st_op = [op |-> "none", name |-> <<>>, score |-> 0, keep_max |-> 0, write |-> "ok"]
    /\ st_ret = [raised |-> FALSE, entries |-> <<>>]
    /\ spawn = SpawnIdle

\* K_RETURN in GAME_OVER.  An exception that leaves save_highscore leaves
\* main() too: the handler stops before g.saved = True and the program ends.
Confirm(write) ==
    /\ scene = GAME_OVER
    /\ st_op.op \in {"none", "confirm"}
    /\ ~st_ret.raised
    /\ IF saved
       THEN HandleKey("RETURN") /\ UNCHANGED storeVars
       ELSE LET r == save_highscore(st_file, name, score, KEEP_MAX_DEFAULT, write)
            IN  /\ st_op' = [op |-> "confirm", name |-> name, score |-> score,
                             keep_max |-> KEEP_MAX_DEFAULT, write |-> write]
                /\ st_ret' = [raised |-> r.raised, entries |-> r.entries]
                /\ st_file' = r.file
                /\ IF r.raised THEN UNCHANGED gameVars ELSE HandleKey("RETURN")
    /\ UNCHANGED spawn

NextConfirm ==
    \/ \E n \in SaveNames, sc \in SaveScores, k \in KeepMaxes, w \in Writes :
          Save(n, sc, k, w)
    \/ \E w \in Writes : Confirm(w)

SpecConfirm == InitConfirm /\ [][NextConfirm]_vars

-----------------------------------------------------------------------------
\* Name sanitization on its own: one _sanitize_name call on any string

\* One character of each class str.strip and str.isprintable tell apart: a
\* letter, the space (printable whitespace), a line feed (whitespace that is
\* not printable) and NUL (neither).
NameChars == {"p", " ", "LF", "NUL"}

\* the input strings: at most one character, a run of letters that stops
\* short of, at or past the cut, and a tail
SanitizeInputs ==
    {h \o Pad(k) \o t :
        h \in SeqsUpTo(NameChars, 1),
        k \in {0, SANITIZE_MAX - 2, SANITIZE_MAX - 1, SANITIZE_MAX},
        t \in SeqsUpTo(NameChars, MaxTail)}

InitSanitize ==
    /\ GameInit
    /\ food = <<0, 0>>
    /\ st_file = [kind |-> "missing", items |-> <<>>]
    /\ st_op \in {[op |-> "none", name |-> n, score |-> 0, keep_max |-> 0,
                    write |-> "ok"] : n \in SanitizeInputs}
    /\ st_ret = [raised |-> FALSE, entries |-> <<>>]
    /\ spawn = SpawnIdle

Sanitize ==
    /\ st_op.op = "none"
    /\ st_op' = [st_op EXCEPT !.op = "sanitize"]
    /\ st_ret' = [raised |-> FALSE, name |-> _sanitize_name(st_op.name)]
    /\ UNCHANGED <<st_file, gameVars, spawn>>

NextSanitize == Sanitize

SpecSanitize == InitSanitize /\ [][NextSanitize]_vars

-----------------------------------------------------------------------------
\* The food spawner on its own: one rand_empty_cell call on any occupied set,
\* one iteration of its while loop per step.  spawn.ret is <<>> until the call
\* returns.

InitSpawn ==
    /\ GameInit
    /\ food = <<0, 0>>
    /\ StoreIdle
    /\ spawn \in {[occupied |-> o, attempts |-> 0, ret |-> <<>>] : o \in SUBSET Cells}

\* the fallback scan: for yy in range(GRID_H): for xx in range(GRID_W)
first_free(free) == CHOOSE c \in free : \A e \in free : RowMajor(c) <= RowMajor(e)

\* the loop without its attempts limit
Draw_no_fallback(c) ==
    /\ spawn.ret = <<>>
    /\ spawn' = IF c \notin spawn.occupied
                THEN [spawn EXCEPT !.ret = c]
                ELSE [spawn EXCEPT !.attempts = Min(spawn.attempts + 1, ATTEMPTS_MAX + 1)]
    /\ UNCHANGED <<gameVars, storeVars>>

\* One iteration with the random draw c.  Past the limit the test
\* attempts > 10_000 stays true, so the counter is kept at ATTEMPTS_MAX + 1;
\* on a full grid the scan finds nothing and the loop goes on.
Draw(c) ==
    /\ spawn.ret = <<>>
    /\ LET a == Min(spawn.attempts + 1, ATTEMPTS_MAX + 1)
           free == Cells \ spawn.occupied
       IN  spawn' = IF c \notin spawn.occupied
                    THEN [spawn EXCEPT !.ret = c]
                    ELSE IF a > ATTEMPTS_MAX /\ free # {}
                    THEN [spawn EXCEPT !.attempts = a, !.ret = first_free(free)]
                    ELSE [spawn EXCEPT !.attempts = a]
    /\ UNCHANGED <<gameVars, storeVars>>

NextSpawn == \E c \in Cells : Draw(c)

SpecSpawn == InitSpawn /\ [][NextSpawn]_vars

-----------------------------------------------------------------------------
\* Claims about the game (Spec)

\* a step of Spec that is one tick of the simulation
IsTick == pc = "update"

InGrid(c) == c[1] \in 0 .. GRID_W - 1 /\ c[2] \in 0 .. GRID_H - 1

\* C1: a tick never moves the snake in the exact opposite of the direction the
\* previous tick moved it in (after a reset: of the initial direction (1,0)),
\* that is, the head never steps back onto the cell behind it; and a request
\* for the opposite of the current direction followed by a step leaves the
\* direction unchanged.
C1_NoReversal ==
    /\ [][IsTick =>
            /\ Add(head(body'), Neg(head(body))) # Neg(Add(body[1], Neg(body[2])))
            /\ dir' # Neg(dir)]_vars
    /\ [](pending_dir = NoDir =>
            \A g \in BOOLEAN : step(set_dir(snake, Neg(dir)), g).dir = dir)

\* C1 witness: the snake heads left in play, which takes a turn through up or
\* down since the reset
C1_Witness == scene = PLAY /\ dir = LEFT /\ pending_dir = NoDir /\ body # StartBody

\* C2: a tick ends in GAME_OVER exactly when the post-step head is outside the
\* grid or equals a later cell of the post-step body; otherwise the scene stays
\* PLAY.
C2_GameOverIff ==
    [][IsTick =>
         LET h == body'[1]
             dead == \/ ~InGrid(h)
                     \/ \E i \in 2 .. Len(body') : body'[i] = h
         IN  /\ scene = PLAY
             /\ dead => scene' = GAME_OVER
             /\ ~dead => scene' = PLAY]_vars

\* C2 witness: a game over by self collision
C2_Witness == scene = GAME_OVER /\ InGrid(body[1]) /\ name = <<>> /\ ~saved

\* C3: the food cell is inside the grid and is not a body cell.
C3_FoodFree ==
    /\ InGrid(food)
    /\ \A i \in 1 .. Len(body) : body[i] # food

\* C3 witness: food has been eaten and respawned, and the game went on to end
C3_Witness == scene = GAME_OVER /\ eats >= 2

\* C4: after N food-eating ticks since the last reset the score is
\* N * SCORE_PER_FOOD and the move rate is min(MOVE_HZ_MAX, MOVE_HZ_START + N
\* steps); the rate stays within [MOVE_HZ_START, MOVE_HZ_MAX]; the score never
\* decreases except by a reset.
C4_ScoreAndRate ==
    /\ [](/\ score = eats * SCORE_PER_FOOD
          /\ move_hz = Min(MOVE_HZ_MAX, MOVE_HZ_START + eats * HZ_STEP)
          /\ move_hz >= MOVE_HZ_START
          /\ move_hz <= MOVE_HZ_MAX)
    /\ [][score' >= score \/ (score' = 0 /\ body' = StartBody)]_vars

\* C4 witness: the ceiling cuts the rate
C4_Witness ==
    /\ eats >= 1
    /\ MOVE_HZ_START + eats * HZ_STEP > MOVE_HZ_MAX
    /\ move_hz = MOVE_HZ_MAX

\* C5: step keeps the length when grow is false and adds one when it is true;
\* the new head is the old head plus the direction applied (the pending one if
\* set, else the current one); behind it comes the old body, without its last
\* cell when grow is false.
StepPost(old, d, grow, new) ==
    /\ Len(new) = Len(old) + (IF grow THEN 1 ELSE 0)
    /\ new[1] = <<old[1][1] + d[1], old[1][2] + d[2]>>
    /\ \A i \in 2 .. Len(new) : new[i] = old[i - 1]

C5_Step ==
    /\ [](\A g \in BOOLEAN : StepPost(body, eff_dir, g, step(snake, g).body))
    /\ [][IsTick => StepPost(body, eff_dir, Add(body[1], eff_dir) = food, body')]_vars

\* C5 witness: a tick has grown the snake
C5_Witness == Len(body) = Len(last_body) + 1 /\ scene = PLAY

\* a session as reset() leaves it, with food on a free cell
FreshSession ==
    /\ body = <<<<GRID_W \div 2, GRID_H \div 2>>, <<(GRID_W \div 2) - 1, GRID_H \div 2>>>>
    /\ Len(body) = 2
    /\ dir = <<1, 0>>
    /\ pending_dir = NoDir
    /\ score = 0
    /\ move_hz = MOVE_HZ_START
    /\ move_accum = 0
    /\ ~paused
    /\ name = <<>>
    /\ ~saved
    /\ InGrid(food)
    /\ food \notin Range(body)

\* C6 as claimed: in HIGHSCORES confirm and restart both lead to PLAY with a
\* fresh session, and every other key leaves the scene HIGHSCORES.
C6_AsClaimed ==
    [][\A k \in Keys :
         (scene = HIGHSCORES /\ KeyDown(k)) =>
             IF k \in {"RETURN", "r"}
             THEN scene' = PLAY /\ FreshSession'
             ELSE scene' = HIGHSCORES]_vars

\* C6 amended: in HIGHSCORES confirm leads to PLAY with a fresh session,
\* restart leads to START with a fresh session, and every other input leaves
\* the scene HIGHSCORES.
C6_HighScoresKeys ==
    /\ [](last_key = <<HIGHSCORES, "RETURN">> => scene = PLAY /\ FreshSession)
    /\ [](last_key = <<HIGHSCORES, "r">> => scene = START /\ FreshSession)
    /\ [][scene = HIGHSCORES /\ scene' # HIGHSCORES =>
            last_key' \in {<<HIGHSCORES, "RETURN">>, <<HIGHSCORES, "r">>}]_vars

\* C6 witness: the restart key has acted in HIGHSCORES
C6_Witness == scene = START /\ last_key = <<HIGHSCORES, "r">>

\* C7: confirm in START or HIGHSCORES and restart in PLAY or GAME_OVER each
\* leave the scene PLAY with a fresh session, and nothing else enters PLAY.
C7_FreshOnPlay ==
    /\ [](last_key \in {<<START, "RETURN">>, <<HIGHSCORES, "RETURN">>,
                       <<PLAY, "r">>, <<GAME_OVER, "r">>}
            => scene = PLAY /\ FreshSession /\ last_body = body)
    /\ [][scene # PLAY /\ scene' = PLAY =>
            last_key' \in {<<START, "RETURN">>, <<HIGHSCORES, "RETURN">>,
                          <<GAME_OVER, "r">>}]_vars

\* C7 witness: a restart from GAME_OVER has entered PLAY
C7_Witness == scene = PLAY /\ last_key = <<GAME_OVER, "r">>

\* C8: while paused nothing but a restart changes the body, the direction, the
\* food, the score, the rate or the accumulator, and no tick starts; the pause
\* key toggles the flag in PLAY and changes neither the flag nor the simulation
\* in the other scenes; the flag is set in PLAY only.
SimVars == <<body, dir, food, score, move_hz, move_accum>>

C8_Pause ==
    /\ [](paused => scene = PLAY /\ pc = "events")
    /\ [][paused => (SimVars' = SimVars /\ pc' = "events") \/ reset_from' # "none"]_vars
    /\ [][\/ (IF scene = PLAY
               THEN paused' = ~paused /\ scene' = PLAY
               ELSE ~paused' /\ SimVars' = SimVars /\ scene' = scene)
           \/ ~KeyDown("p")]_vars

\* C8 witness: paused in the middle of a session, between two ticks
C8_Witness == paused /\ eats >= 1 /\ move_accum > 0

\* C9: the scene becomes GAME_OVER with an empty name buffer, a clear saved
\* flag and no save made; in GAME_OVER the first confirm makes the one
\* save_highscore call, with the name buffer and the score as they stand, and
\* sets saved; a later confirm makes no call; nothing else makes one.
C9_SaveOnce ==
    /\ [][scene # GAME_OVER /\ scene' = GAME_OVER =>
            name' = <<>> /\ ~saved' /\ save_calls' = <<>>]_vars
    /\ [](scene = GAME_OVER =>
            /\ Len(save_calls) <= 1
            /\ saved <=> Len(save_calls) = 1)
    /\ [][scene = GAME_OVER /\ KeyDown("RETURN") =>
            /\ saved'
            /\ scene' = GAME_OVER
            /\ IF saved
               THEN save_calls' = save_calls
               ELSE /\ Len(save_calls') = 1
                    /\ save_calls'[1].name = name
                    /\ save_calls'[1].score = score
                    /\ score = eats * SCORE_PER_FOOD]_vars
    /\ [][scene = GAME_OVER /\ scene' = GAME_OVER /\ save_calls' # save_calls =>
            KeyDown("RETURN") /\ ~saved]_vars

\* C9 witness: a score has been saved under a typed name
C9_Witness ==
    /\ scene = GAME_OVER
    /\ saved
    /\ Len(save_calls) = 1
    /\ save_calls[1].name = <<"p">>
    /\ save_calls[1].score > 0

-----------------------------------------------------------------------------
\* the head is off the grid or on another cell of the body
Collided(b) == ~InGrid(b[1]) \/ \E i \in 2 .. Len(b) : b[i] = b[1]

\* C15: a frame in PLAY while unpaused adds its progress to the accumulator;
\* a tick runs only in PLAY, unpaused, with the accumulator at least one
\* tick, and takes one tick off it; a tick that leaves the head off the grid
\* or on the body ends the frame in GAME_OVER; any other tick is followed by
\* the next tick of the frame exactly when a whole tick is left; no tick runs
\* outside PLAY, which only a reset enters; and between frames in PLAY the
\* accumulator is less than one tick.
C15_TickLoop ==
    /\ [](pc = "update" => scene = PLAY /\ ~paused /\ move_accum >= ACC_ONE)
    /\ [](pc = "events" /\ scene = PLAY => move_accum \in 0 .. ACC_ONE - 1)
    /\ [][pc = "events" /\ scene = PLAY /\ ~paused /\ move_accum' # move_accum
             /\ reset_from' = "none" =>
            /\ move_accum' - move_accum \in 1 .. MaxProgress
            /\ pc' = IF move_accum' >= ACC_ONE THEN "update" ELSE "events"
            /\ <<scene, body, dir, food, score>>' = <<scene, body, dir, food, score>>]_vars
    /\ [][pc = "update" =>
            /\ move_accum' = move_accum - ACC_ONE
            /\ IF Collided(body')
               THEN scene' = GAME_OVER /\ pc' = "events"
               ELSE /\ scene' = PLAY
                    /\ pc' = IF move_accum' >= ACC_ONE THEN "update" ELSE "events"]_vars
    /\ [][scene # PLAY /\ scene' = PLAY => reset_from' = scene]_vars

\* C15 witness: a frame has added enough for two ticks, the second with a
\* fraction already on the accumulator
C15_Witness == pc = "update" /\ move_accum >= 2 * ACC_ONE /\ eats >= 1

\* C16: pending_dir is the one buffer slot.  A direction key in PLAY that is
\* not the opposite of the current direction overwrites the slot, and one that
\* is leaves the slot as it was; neither touches the direction or the body.
\* A tick moves in the buffered direction if there is one and in the current
\* direction otherwise, and empties the slot.  Nothing else but a reset
\* changes the slot or the direction.
C16_OneSlot ==
    /\ [](pending_dir # NoDir => pending_dir \in Dirs \ {Neg(dir)})
    /\ [](scene = PLAY /\ pc = "events" =>
            \A k \in {"UP", "DOWN", "LEFT", "RIGHT"} :
                ENABLED (/\ KeyDown(k)
                         /\ pending_dir' = IF KeyDir(k) = Neg(dir) THEN pending_dir
                                           ELSE KeyDir(k)
                         /\ dir' = dir
                         /\ body' = body))
    /\ [][IsTick =>
            /\ dir' = IF pending_dir # NoDir THEN pending_dir ELSE dir
            /\ body'[1] = Add(body[1], dir')
            /\ pending_dir' = NoDir]_vars
    /\ [][pending_dir' # pending_dir \/ dir' # dir =>
            \/ IsTick
            \/ reset_from' # "none"
            \/ scene = PLAY /\ pc = "events" /\ pending_dir' \in Dirs /\ dir' = dir]_vars

\* C16 witness: after a turn, a tick is about to consume a buffered direction
\* that differs from the one the snake moves in
C16_Witness ==
    /\ pc = "update"
    /\ dir # RIGHT
    /\ pending_dir \notin {NoDir, dir}
    /\ Len(body) > Len(StartBody)

\* the keys whose ev.unicode is a printable character that is no control
\* character
TextKeys == {k \in Keys : Unicode(k) # "" /\ isprintable(Unicode(k))}

\* C17: in GAME_OVER with nothing saved, a key with a printable character
\* appends it to the name while the name is shorter than NAME_MAX and is
\* ignored at NAME_MAX, and backspace removes the last character of a
\* non-empty name; once saved neither changes the name; the name is never
\* longer than NAME_MAX.
C17_NameEntry ==
    /\ Len(name) <= NAME_MAX
    /\ scene = GAME_OVER /\ pc = "events" =>
          /\ \A k \in TextKeys :
                ENABLED (/\ KeyDown(k)
                         /\ name' = IF ~saved /\ Len(name) < NAME_MAX
                                    THEN Append(name, Unicode(k))
                                    ELSE name)
          /\ ENABLED (/\ KeyDown("BACKSPACE")
                      /\ name' = IF ~saved /\ name # <<>>
                                 THEN SubSeq(name, 1, Len(name) - 1)
                                 ELSE name)

\* a sequence without its last element
Front(b) == SubSeq(b, 1, Len(b) - 1)

\* C19: a tick sets the snapshot to the body it found, and only a tick or a
\* reset changes the snapshot or the body, a reset making them equal.  So
\* when a frame is rendered in PLAY the snapshot handed over is the stored
\* one, the body behind its head is that snapshot, whole after a growing tick
\* and without its last cell otherwise (or body and snapshot are equal), the
\* lengths differ by at most one, and the blend fraction is the accumulator,
\* which lies between 0 and one tick.
C19_Snapshot ==
    /\ [][IsTick => last_body' = body]_vars
    /\ [][last_body' # last_body \/ body' # body => IsTick \/ reset_from' # "none"]_vars
    /\ [][reset_from' # "none" => last_body' = body']_vars
    /\ [](scene = PLAY /\ pc = "events" =>
            /\ prev = last_body
            /\ \/ prev = body
               \/ Tail(body) = prev /\ Len(body) = Len(prev) + 1
               \/ Tail(body) = Front(prev) /\ Len(body) = Len(prev)
            /\ Len(body) - Len(prev) \in {0, 1}
            /\ alpha = move_accum
            /\ alpha \in 0 .. ACC_ONE)

\* C19 witness: a frame is rendered in PLAY after a tick that grew the snake,
\* with a fraction of a tick on the accumulator
C19_Witness ==
    /\ scene = PLAY
    /\ pc = "events"
    /\ Tail(body) = prev
    /\ alpha > 0

\* C20: in PLAY the body is non-empty, every cell of it is inside the grid
\* and no two of its cells are equal.
C20_BodyInGrid ==
    scene = PLAY =>
        /\ body # <<>>
        /\ \A i \in 1 .. Len(body) : InGrid(body[i])
        /\ \A i, j \in 1 .. Len(body) : i # j => body[i] # body[j]

\* C20 witness: the snake is alive with more than half the grid under it, its
\* head next to its own body
C20_Witness ==
    /\ scene = PLAY
    /\ 2 * Len(body) > GRID_W * GRID_H
    /\ \E i \in 3 .. Len(body) : \E d \in Dirs : Add(body[1], d) = body[i]

\* C21: in every scene the body has 2 + score / SCORE_PER_FOOD cells; a tick
\* that ends in GAME_OVER leaves the length as it was, and a tick that
\* lengthens the body adds SCORE_PER_FOOD to the score.
C21_LengthAndScore ==
    /\ [](/\ score % SCORE_PER_FOOD = 0
          /\ Len(body) = 2 + score \div SCORE_PER_FOOD)
    /\ [][IsTick /\ scene' = GAME_OVER => Len(body') = Len(body) /\ score' = score]_vars
    /\ [][IsTick /\ Len(body') # Len(body) =>
            /\ Len(body') = Len(body) + 1
            /\ score' = score + SCORE_PER_FOOD
            /\ scene' = PLAY]_vars

\* C21 witness: a snake that has grown twice ran into a wall
C21_Witness ==
    /\ scene = GAME_OVER
    /\ ~InGrid(body[1])
    /\ score = 2 * SCORE_PER_FOOD
    /\ Len(body) = 4

\* C22: a game over with the head inside the grid leaves a body of at least
\* 5 cells and a score of at least 3 * SCORE_PER_FOOD, so a
\* shorter snake only dies off the grid; and a tick that moves the head into
\* the cell the tail had before it stays in PLAY.
C22_SelfHit ==
    /\ [](scene = GAME_OVER /\ InGrid(body[1]) =>
            /\ Len(body) >= 5
            /\ score >= 3 * SCORE_PER_FOOD)
    /\ [][IsTick /\ scene' = GAME_OVER /\ Len(body') < 5 =>
            ~InGrid(body'[1])]_vars
    /\ [][IsTick /\ body'[1] = body[Len(body)] =>
            scene' = PLAY /\ Len(body') = Len(body)]_vars

\* C22 witness: a snake of exactly 5 cells ran into itself
C22_Witness ==
    /\ scene = GAME_OVER
    /\ InGrid(body[1])
    /\ Len(body) = 5
    /\ \E i \in 2 .. Len(body) : body[i] = body[1]

\* the number of ticks after which a head at c moving in direction d is off
\* the grid
TicksToWall(c, d) ==
    CASE d = RIGHT -> GRID_W - c[1]
      [] d = LEFT -> c[1] + 1
      [] d = DOWN -> GRID_H - c[2]
      [] d = UP -> c[2] + 1

\* C23: in PLAY the head is at most max(GRID_W, GRID_H) ticks from leaving
\* the grid in the direction the next tick will take; a tick ends in GAME_OVER
\* or leaves the snake in PLAY one tick nearer to that wall, with no pending
\* direction; and a tick that is due can always run to its end, whether or
\* not it eats.
C23_ReachesGameOver ==
    /\ [](scene = PLAY =>
            TicksToWall(body[1], eff_dir) \in 1 .. Max(GRID_W, GRID_H))
    /\ [][IsTick =>
            \/ scene' = GAME_OVER
            \/ /\ scene' = PLAY
               /\ pending_dir' = NoDir
               /\ TicksToWall(body'[1], dir') = TicksToWall(body[1], eff_dir) - 1]_vars
    /\ [](pc = "update" => ENABLED Tick)

-----------------------------------------------------------------------------
\* Claims about the store (SpecStore)

SortedDesc(es) == \A i \in 1 .. Len(es) - 1 : es[i].score >= es[i + 1].score

\* the entry a save call is to add
NewEntry(op) == [name |-> _sanitize_name(op.name), score |-> Max(0, op.score)]

\* C10 as claimed: after any save a following load contains the entry with the
\* sanitized name and the clamped score, and the list save returned is sorted
\* by score descending with at most keep_max entries.  Stated for the saves
\* that returned and whose persist step succeeded, which the claim includes.
C10_AsClaimed ==
    /\ st_op.op = "save" /\ ~st_ret.raised =>
          SortedDesc(st_ret.entries) /\ Len(st_ret.entries) <= st_op.keep_max
    /\ st_op.op = "save_load" /\ st_op.write = "ok" /\ ~st_ret.raised =>
          \E i \in 1 .. Len(st_ret.entries) : st_ret.entries[i] = NewEntry(st_op)

\* C10 amended: the list save returns is sorted by score descending, has at
\* most keep_max entries, and contains the new entry whenever fewer than
\* keep_max of the entries loaded before had a score at least the new one;
\* and when the persist step succeeded, a following load returns exactly the
\* list save returned.
C10_SaveThenLoad ==
    /\ [][st_op.op = "none" /\ st_op'.op = "save" /\ ~st_ret'.raised =>
            LET before == load_highscores(st_file).entries
                e == NewEntry(st_op')
                ahead == {i \in 1 .. Len(before) : before[i].score >= e.score}
            IN  /\ SortedDesc(st_ret'.entries)
                /\ Len(st_ret'.entries) <= st_op'.keep_max
                /\ Cardinality(ahead) < st_op'.keep_max =>
                      \E i \in 1 .. Len(st_ret'.entries) : st_ret'.entries[i] = e]_vars
    /\ [][st_op.op = "save" /\ st_op'.op = "save_load"
             /\ st_op.write = "ok" /\ ~st_ret.raised =>
            st_ret' = st_ret]_vars

\* C10 witness: a save whose name was changed by sanitization and whose score
\* was clamped filled the list to keep_max, was persisted, and the following
\* load returned the new entry
C10_Witness ==
    /\ st_op.op = "save_load"
    /\ st_op.write = "ok"
    /\ ~st_ret.raised
    /\ st_op.keep_max >= 2
    /\ Len(st_ret.entries) = st_op.keep_max
    /\ \E i \in 1 .. Len(st_ret.entries) : st_ret.entries[i] = NewEntry(st_op)
    /\ st_op.name # NewEntry(st_op).name
    /\ st_op.score < 0

\* the items of the file that are objects
DictItems(f) == SelectSeq(f.items, LAMBDA it : it.dict)

\* C13: load_highscores returns a list and raises nothing whatever the file
\* holds: the empty list when the file is missing, corrupt or not of the
\* expected shape, otherwise one entry per object item, with PLAYER for a
\* missing name and 0 for a missing or non-numeric score, every score >= 0,
\* sorted by score descending.
C13_LoadNeverRaises ==
    st_op.op = "load" =>
        /\ ~st_ret.raised
        /\ st_file.kind # "list" => st_ret.entries = <<>>
        /\ st_file.kind = "list" =>
              /\ Len(st_ret.entries) = Len(DictItems(st_file))
              /\ \A i \in 1 .. Len(st_ret.entries) : st_ret.entries[i].score >= 0
              /\ SortedDesc(st_ret.entries)
              /\ \A i \in 1 .. Len(DictItems(st_file)) :
                    LET it == DictItems(st_file)[i]
                    IN  \E j \in 1 .. Len(st_ret.entries) :
                          /\ it.name.kind = "absent" =>
                                st_ret.entries[j].name = <<"P", "L", "A", "Y", "E", "R">>
                          /\ it.score.kind \in {"absent", "bad"} =>
                                st_ret.entries[j].score = 0

-----------------------------------------------------------------------------
\* Claims about the confirm key and the store (SpecConfirm)

Count(es, x) == Cardinality({i \in 1 .. Len(es) : es[i] = x})

\* es is all sorted by score descending and cut to k entries: it is sorted,
\* has the length, takes its entries from all, and leaves out nothing that
\* scores more than an entry it keeps
IsRanking(es, all, k) ==
    /\ SortedDesc(es)
    /\ Len(es) = Min(Len(all), k)
    /\ \A i \in 1 .. Len(es) : Count(es, es[i]) <= Count(all, es[i])
    /\ \A i \in 1 .. Len(all), j \in 1 .. Len(es) :
          Count(es, all[i]) < Count(all, all[i]) => all[i].score <= es[j].score

\* C14: a save_highscore call whose persist step fails raises nothing and
\* returns the loaded entries plus the new one, sorted by score descending and
\* cut to keep_max; when the confirm key made the call, the saved flag is set
\* and the scene is still GAME_OVER.
C14_PersistFails ==
    [][/\ st_op.op = "none"
       /\ st_op'.op \in {"save", "confirm"}
       /\ st_op'.write # "ok"
       /\ ~load_highscores(st_file).raised
       => /\ ~st_ret'.raised
          /\ IsRanking(st_ret'.entries,
                       Append(load_highscores(st_file).entries, NewEntry(st_op')),
                       Max(1, st_op'.keep_max))
          /\ st_op'.op = "confirm" =>
                /\ saved'
                /\ scene' = GAME_OVER
                /\ st_op'.name = name /\ st_op'.score = score]_vars

\* C14 witness: the confirm key made a save whose dump failed half way, on a
\* file that held entries
C14_Witness ==
    /\ st_op.op = "confirm"
    /\ st_op.write = "dump_failed"
    /\ st_file.kind = "corrupt"
    /\ saved
    /\ scene = GAME_OVER
    /\ Len(st_ret.entries) >= 2

-----------------------------------------------------------------------------
\* Claims about name sanitization (SpecSanitize)

\* a valid name: non-empty, at most SANITIZE_MAX characters, every character
\* printable and none a carriage return, line feed or tab, no whitespace at
\* either end
ValidName(n) ==
    /\ n # <<>>
    /\ Len(n) <= SANITIZE_MAX
    /\ \A i \in 1 .. Len(n) : n[i] \notin NonPrintable
    /\ n[1] \notin Blank
    /\ n[Len(n)] \notin Blank

\* C11: _sanitize_name returns a valid name for every string; an empty or
\* whitespace-only string gives PLAYER; a string longer than SANITIZE_MAX is
\* cut: what is returned is never longer than SANITIZE_MAX, and is the first
\* SANITIZE_MAX characters when those are letters.
C11_ValidName ==
    st_op.op = "sanitize" =>
        /\ ValidName(st_ret.name)
        /\ (\A i \in 1 .. Len(st_op.name) : st_op.name[i] \in Blank)
              => st_ret.name = <<"P", "L", "A", "Y", "E", "R">>
        /\ (/\ Len(st_op.name) > SANITIZE_MAX
            /\ \A i \in 1 .. SANITIZE_MAX : st_op.name[i] = "p")
              => st_ret.name = [i \in 1 .. SANITIZE_MAX |-> "p"]

\* C11 witness: a string longer than the cut, with a line feed and a NUL in
\* it, was sanitized to a name of full length
C11_Witness ==
    /\ st_op.op = "sanitize"
    /\ Len(st_op.name) > SANITIZE_MAX
    /\ \E i \in 1 .. Len(st_op.name) : st_op.name[i] = "LF"
    /\ \E i \in 1 .. Len(st_op.name) : st_op.name[i] = "NUL"
    /\ Len(st_ret.name) = SANITIZE_MAX

-----------------------------------------------------------------------------
\* Claims about the names in the store (SpecStore)

\* no two whitespace characters in a row
Collapsed(n) == \A i \in 1 .. Len(n) - 1 : ~(n[i] \in Blank /\ n[i + 1] \in Blank)

\* C18 as claimed: every name in a list returned by save or load is valid and
\* has no two whitespace characters in a row.
C18_AsClaimed ==
    ~st_ret.raised =>
        \A i \in 1 .. Len(st_ret.entries) :
            ValidName(st_ret.entries[i].name) /\ Collapsed(st_ret.entries[i].name)

\* C18: every name in a list returned by save or load, and every name save
\* writes to the file, is valid: non-empty, at most SANITIZE_MAX characters,
\* all printable, no whitespace at either end; and the name save enters is
\* the name it was given whenever that name is valid already, spaces inside
\* it included.
C18_Names ==
    /\ ~st_ret.raised =>
          \A i \in 1 .. Len(st_ret.entries) : ValidName(st_ret.entries[i].name)
    /\ st_op.op = "save" /\ ~st_ret.raised /\ st_op.write = "ok" =>
          /\ st_file.kind = "list"
          /\ \A i \in 1 .. Len(st_file.items) :
                /\ st_file.items[i].name.kind = "str"
                /\ ValidName(st_file.items[i].name.chars)
    /\ st_op.op = "save" /\ ~st_ret.raised /\ ValidName(st_op.name)
         /\ Len(st_ret.entries) < st_op.keep_max =>
          \E i \in 1 .. Len(st_ret.entries) : st_ret.entries[i].name = st_op.name

\* C18 witness: a load after a save returned a name with two spaces in a row
C18_Witness ==
    /\ st_op.op = "save_load"
    /\ ~st_ret.raised
    /\ \E i \in 1 .. Len(st_ret.entries) : ~Collapsed(st_ret.entries[i].name)

-----------------------------------------------------------------------------
\* Claims about the food spawner (SpecSpawn)

\* C12: on an occupied set that leaves a cell free, the call is over after at
\* most ATTEMPTS_MAX + 1 draws whatever they are (every draw returns or counts
\* one more failed attempt, and no more than ATTEMPTS_MAX failed attempts are
\* ever pending); what it returns is a free cell of the grid; and what it
\* returns once the attempts are exceeded is the first free cell, rows first.
C12_Spawn ==
    /\ [](spawn.occupied # Cells /\ spawn.ret = <<>> => spawn.attempts <= ATTEMPTS_MAX)
    /\ [][spawn.occupied # Cells =>
            \/ spawn'.ret # <<>>
            \/ spawn'.attempts = spawn.attempts + 1]_vars
    /\ [](spawn.ret # <<>> =>
            /\ spawn.ret[1] \in 0 .. GRID_W - 1
            /\ spawn.ret[2] \in 0 .. GRID_H - 1
            /\ spawn.ret \notin spawn.occupied)
    /\ [](spawn.ret # <<>> /\ spawn.attempts > ATTEMPTS_MAX =>
            \A e \in Cells \ spawn.occupied :
                \/ spawn.ret[2] < e[2]
                \/ spawn.ret[2] = e[2] /\ spawn.ret[1] <= e[1])

\* C12 witness: every draw allowed failed and the scan had several free cells
\* to pick from
C12_Witness ==
    /\ spawn.ret # <<>>
    /\ spawn.attempts > ATTEMPTS_MAX
    /\ Cardinality(Cells \ spawn.occupied) >= 2

====
